---- MODULE Spec2Model ----
(***************************************************************************)
(* AutoPilotDevice (src/input/autopilot_device.rs): the input device that  *)
(* replays pointer, wheel and keyboard events as native input primitives.  *)
(* The module is compiled for one target operating system; the macos build *)
(* is the pressure-tablet ("advanced") variant, every other build is the   *)
(* baseline variant.  A platform primitive is "emitted" when the device    *)
(* calls it (send_mouse_event, send_tablet_proximity_event, mouse::move_to,*)
(* mouse::toggle, mouse::scroll, key::toggle); whether the operating       *)
(* system accepted the call is recorded with the call.                     *)
(***************************************************************************)
EXTENDS Integers, Sequences, FiniteSets, TLC

VARIABLES
    target_os,          \* the cfg(target_os) the module was built for
    capturable,         \* AutoPilotDevice.capturable: the capture target held
    left_button_down,   \* AutoPilotDevice.left_button_down
    in_proximity,       \* AutoPilotDevice.in_proximity (macos builds only)
    cursor,             \* the operating system's pointer position (baseline)
    panicked,           \* a handler unwound with a panic
    last,               \* the most recent operation: its input, outcome, calls
                        \* and the flags before it and inside it
    button_history      \* accepted primary DOWN and release events, with
                        \* the primitives each one emitted, since construction

vars == <<target_os, capturable, left_button_down, in_proximity, cursor,
          panicked, last, button_history>>

----------------------------------------------------------------------------
(* Bounds of the model *)

\* accepted button events (DOWN, UP, CANCEL, LEAVE, OUT) recorded per run
MaxHistory == 3

\* normalized coordinates, relative geometry and pressure are fractions of
\* Unit: the value v stands for the real number v / Unit
Unit == 2

\* significant bits a floating-point value keeps (an f64 keeps 53)
MantissaBits == 16

----------------------------------------------------------------------------
(* Inputs *)

TargetOS == {"macos", "linux", "windows"}

Targets == {"t1", "t2"}

PointerEventType ==
    {"DOWN", "UP", "MOVE", "OVER", "ENTER", "LEAVE", "OUT", "CANCEL"}

ReleaseTypes == {"UP", "CANCEL", "LEAVE", "OUT"}

MoveTypes == {"MOVE", "OVER", "ENTER"}

\* normalized (x, y) positions of the sampled events
Points == {<<0, Unit>>, <<Unit, 1>>}

Pressures == {0, Unit}

PointerEvents ==
    { [event_type |-> t, x |-> p[1], y |-> p[2], pressure |-> pr,
       is_primary |-> prim] :
        t \in PointerEventType, p \in Points, pr \in Pressures,
        prim \in BOOLEAN }

I32Max == 2147483647

I32Min == -I32Max - 1

WheelDeltas == {I32Min, -2, -1, 0, 1, 7, I32Max}

KeyboardEventType == {"DOWN", "UP", "REPEAT"}

\* (code, key) pairs of the sampled keyboard events; key is the sequence of
\* the characters of the key string, as str::chars() yields them
KeySamples ==
    { <<"F13", <<"F", "1", "3">>>>,
      <<"ControlLeft", <<"C", "o", "n", "t", "r", "o", "l">>>>,
      <<"ControlRight", <<"C", "o", "n", "t", "r", "o", "l">>>>,
      <<"KeyA", <<"a">>>>,
      <<"Unknown99", <<"\\u00e9">>>>,
      <<"Unknown99", <<"e", "\\u0301">>>>,
      <<"Unidentified", <<>>>> }

\* (ctrl, alt, meta, shift) of the sampled keyboard events
ModifierSamples ==
    { <<FALSE, FALSE, FALSE, FALSE>>, <<TRUE, FALSE, FALSE, FALSE>>,
      <<FALSE, TRUE, FALSE, TRUE>>, <<TRUE, TRUE, TRUE, TRUE>> }

KeyboardEvents ==
    { [event_type |-> t, code |-> k[1], key |-> k[2],
       ctrl |-> m[1], alt |-> m[2], meta |-> m[3], shift |-> m[4]] :
        t \in KeyboardEventType, k \in KeySamples, m \in ModifierSamples }

----------------------------------------------------------------------------
(* Collaborators *)

\* Capturable::geometry() of each target when the lookup succeeds
TargetGeometry(t) ==
    IF t = "t1" THEN [variant |-> "Relative", x |-> 0, y |-> 0,
                      width |-> Unit, height |-> Unit]
    ELSE [variant |-> "Relative", x |-> 1, y |-> 0,
          width |-> 1, height |-> Unit]

\* Result<Geometry, _> values geometry() can return on a build
GeometryResults(os, t) ==
    {[ok |-> TRUE, value |-> TargetGeometry(t)], [ok |-> FALSE]}
    \cup (IF os = "windows"
          THEN {[ok |-> TRUE, value |-> [variant |-> "VirtualScreen"]]}
          ELSE {})

\* screen_coordsys() / screen_size(): (x, y, width, height)
ScreenBounds == <<0, 0, 1920, 1080>>

----------------------------------------------------------------------------
(* Platform primitives: the record of one call *)

\* send_mouse_event: posts one CGEvent mouse event of the given type; the
\* event is built and posted only if the event source and the event can be
\* created (posted)
send_mouse_event(event_type, x, y, pressure, posted) ==
    [kind |-> event_type, x |-> x, y |-> y, pressure |-> pressure,
     posted |-> posted]

\* send_tablet_proximity_event: posts one TabletProximity event
send_tablet_proximity_event(entering, posted) ==
    [kind |-> "TabletProximity", entering |-> entering, posted |-> posted]

\* mouse::move_to(point) and its Result
move_to(x, y, ok) == [kind |-> "move_to", x |-> x, y |-> y, ok |-> ok]

\* mouse::toggle(Button::Left, down), acting at the pointer's position
toggle(down, at) ==
    [kind |-> "toggle", button |-> "Left", down |-> down, at |-> at]

\* mouse::scroll(direction, clicks)
scroll(direction, clicks) ==
    [kind |-> "scroll", direction |-> direction, clicks |-> clicks]

\* autopilot::key::toggle(&key, state, &flags, 0)
key_toggle(key, state, flags) ==
    [kind |-> "key_toggle", key |-> key, down |-> state, flags |-> flags,
     delay |-> 0]

\* the primitive a call is, whatever its position, pressure and result
Primitive(call) ==
    CASE call.kind = "TabletProximity" ->
            IF call.entering THEN "proximity_enter" ELSE "proximity_leave"
      [] call.kind = "LeftMouseDown" -> "button_down"
      [] call.kind = "LeftMouseUp" -> "button_up"
      [] call.kind = "LeftMouseDragged" -> "drag"
      [] call.kind = "MouseMoved" -> "move"
      [] call.kind = "toggle" ->
            IF call.down THEN "button_down" ELSE "button_up"
      [] OTHER -> call.kind

Primitives(calls) == [i \in 1..Len(calls) |-> Primitive(calls[i])]

----------------------------------------------------------------------------
(* Coordinate mapping: (event.x * width_rel + x_rel) * width, in floating  *)
(* point.  With x, width_rel and x_rel fractions of Unit the result is in  *)
(* 1/Unit^2 pixels.  Each of the three operations rounds its exact result  *)
(* to the nearest value of MantissaBits significant bits, ties to even.    *)

\* the spacing of the representable values at the magnitude a >= 0
RECURSIVE Quantum(_)
Quantum(a) == IF a < 2^MantissaBits THEN 1 ELSE 2 * Quantum(a \div 2)

\* the floating-point value the exact result v of an operation is rounded to
f64(v) ==
    LET a == IF v < 0 THEN -v ELSE v
        q == Quantum(a)
        below == (a \div q) * q
        rest == a - below
        rounded ==
            IF 2 * rest < q THEN below
            ELSE IF 2 * rest > q THEN below + q
            ELSE IF (below \div q) % 2 = 0 THEN below ELSE below + q
    IN  IF v < 0 THEN -rounded ELSE rounded

\* mutant: the coordinate is clamped to the screen
screen_x_clamped(event, geometry, width) ==
    LET x == f64(f64(f64(event.x * geometry.width) + geometry.x * Unit)
                 * width)
    IN  IF x < 0 THEN 0
        ELSE IF x > width * Unit * Unit THEN width * Unit * Unit ELSE x

screen_x(event, geometry, width) ==
    f64(f64(f64(event.x * geometry.width) + geometry.x * Unit) * width)

screen_y(event, geometry, height) ==
    f64(f64(f64(event.y * geometry.height) + geometry.y * Unit) * height)

----------------------------------------------------------------------------
(* send_pointer_event, macos: the match on event.event_type.  posted is   *)
(* whether the HID event source is available while the handler runs, so    *)
(* that the primitives it calls are posted.  steps holds the two flags     *)
(* after each statement of the arm taken: after an assignment, and while   *)
(* the primitive of a call is emitted.                                     *)

Step(down, proximity, emitting) ==
    [left_button_down |-> down, in_proximity |-> proximity,
     emitting |-> emitting]

Unchanged == [left_button_down |-> left_button_down,
              in_proximity |-> in_proximity, calls |-> <<>>, steps |-> <<>>]

\* mutant: the proximity-enter is sent after the button-down
pointer_down_macos_enter_late(x, y, pressure, posted) ==
    IF ~left_button_down
    THEN [left_button_down |-> TRUE, in_proximity |-> TRUE,
          calls |-> <<send_mouse_event("LeftMouseDown", x, y, pressure,
                                       posted)>>
                    \o (IF ~in_proximity
                        THEN <<send_tablet_proximity_event(TRUE, posted)>>
                        ELSE <<>>),
          steps |-> <<Step(TRUE, in_proximity, "none"),
                      Step(TRUE, in_proximity, "button_down")>>
                    \o (IF ~in_proximity
                        THEN <<Step(TRUE, TRUE, "none"),
                               Step(TRUE, TRUE, "proximity_enter")>>
                        ELSE <<>>)]
    ELSE Unchanged

\* PointerEventType::DOWN
pointer_down_macos(x, y, pressure, posted) ==
    IF ~left_button_down
    THEN [left_button_down |-> TRUE, in_proximity |-> TRUE,
          calls |-> (IF ~in_proximity
                     THEN <<send_tablet_proximity_event(TRUE, posted)>>
                     ELSE <<>>)
                    \o <<send_mouse_event("LeftMouseDown", x, y, pressure,
                                          posted)>>,
          steps |-> (IF ~in_proximity
                     THEN <<Step(FALSE, TRUE, "none"),
                            Step(FALSE, TRUE, "proximity_enter")>>
                     ELSE <<>>)
                    \o <<Step(TRUE, TRUE, "none"),
                          Step(TRUE, TRUE, "button_down")>>]
    ELSE Unchanged

\* mutant: the release does not look at left_button_down
pointer_release_macos_unguarded(x, y, posted) ==
    [left_button_down |-> FALSE, in_proximity |-> FALSE,
     calls |-> <<send_mouse_event("LeftMouseUp", x, y, 0, posted)>>
               \o (IF in_proximity
                   THEN <<send_tablet_proximity_event(FALSE, posted)>>
                   ELSE <<>>),
     steps |-> <<Step(FALSE, in_proximity, "none"),
                 Step(FALSE, in_proximity, "button_up")>>
               \o (IF in_proximity
                   THEN <<Step(FALSE, FALSE, "none"),
                          Step(FALSE, FALSE, "proximity_leave")>>
                   ELSE <<>>)]

\* mutant: the proximity-leave is sent, in_proximity is not cleared
pointer_release_macos_stays_in_proximity(x, y, posted) ==
    IF left_button_down
    THEN [left_button_down |-> FALSE, in_proximity |-> in_proximity,
          calls |-> <<send_mouse_event("LeftMouseUp", x, y, 0, posted)>>
                    \o (IF in_proximity
                        THEN <<send_tablet_proximity_event(FALSE, posted)>>
                        ELSE <<>>),
          steps |-> <<Step(FALSE, in_proximity, "none"),
                      Step(FALSE, in_proximity, "button_up")>>
                    \o (IF in_proximity
                        THEN <<Step(FALSE, in_proximity, "proximity_leave")>>
                        ELSE <<>>)]
    ELSE Unchanged

\* PointerEventType::UP | CANCEL | LEAVE | OUT
pointer_release_macos(x, y, posted) ==
    IF left_button_down
    THEN [left_button_down |-> FALSE, in_proximity |-> FALSE,
          calls |-> <<send_mouse_event("LeftMouseUp", x, y, 0, posted)>>
                    \o (IF in_proximity
                        THEN <<send_tablet_proximity_event(FALSE, posted)>>
                        ELSE <<>>),
          steps |-> <<Step(FALSE, in_proximity, "none"),
                      Step(FALSE, in_proximity, "button_up")>>
                    \o (IF in_proximity
                        THEN <<Step(FALSE, FALSE, "none"),
                               Step(FALSE, FALSE, "proximity_leave")>>
                        ELSE <<>>)]
    ELSE Unchanged

\* mutant: the plain move carries the pressure of the event
pointer_move_macos_keeps_pressure(x, y, pressure, posted) ==
    [left_button_down |-> left_button_down, in_proximity |-> in_proximity,
     calls |-> IF left_button_down
               THEN <<send_mouse_event("LeftMouseDragged", x, y, pressure,
                                       posted)>>
               ELSE <<send_mouse_event("MouseMoved", x, y, pressure,
                                       posted)>>,
     steps |-> <<Step(left_button_down, in_proximity,
                      IF left_button_down THEN "drag" ELSE "move")>>]

\* PointerEventType::MOVE | OVER | ENTER
pointer_move_macos(x, y, pressure, posted) ==
    [left_button_down |-> left_button_down, in_proximity |-> in_proximity,
     calls |-> IF left_button_down
               THEN <<send_mouse_event("LeftMouseDragged", x, y, pressure,
                                       posted)>>
               ELSE <<send_mouse_event("MouseMoved", x, y, 0, posted)>>,
     steps |-> <<Step(left_button_down, in_proximity,
                      IF left_button_down THEN "drag" ELSE "move")>>]

pointer_match_macos(event, x, y, posted) ==
    CASE event.event_type = "DOWN" ->
            pointer_down_macos(x, y, event.pressure, posted)
      [] event.event_type \in {"UP", "CANCEL", "LEAVE", "OUT"} ->
            pointer_release_macos(x, y, posted)
      [] event.event_type \in {"MOVE", "OVER", "ENTER"} ->
            pointer_move_macos(x, y, event.pressure, posted)

(* send_pointer_event, not macos: the match on event.event_type, after the *)
(* move; at is the pointer's position when the button is toggled.          *)

\* mutant: DOWN does not look at left_button_down
pointer_down_baseline_unguarded(at) ==
    [left_button_down |-> TRUE, calls |-> <<toggle(TRUE, at)>>]

\* PointerEventType::DOWN
pointer_down_baseline(at) ==
    IF ~left_button_down
    THEN [left_button_down |-> TRUE, calls |-> <<toggle(TRUE, at)>>]
    ELSE [left_button_down |-> left_button_down, calls |-> <<>>]

\* PointerEventType::UP | CANCEL | LEAVE | OUT
pointer_release_baseline(at) ==
    IF left_button_down
    THEN [left_button_down |-> FALSE, calls |-> <<toggle(FALSE, at)>>]
    ELSE [left_button_down |-> left_button_down, calls |-> <<>>]

\* mutant: of the release events only UP releases the button
pointer_match_baseline_up_only(event, at) ==
    CASE event.event_type = "DOWN" -> pointer_down_baseline(at)
      [] event.event_type = "UP" -> pointer_release_baseline(at)
      [] OTHER -> [left_button_down |-> left_button_down, calls |-> <<>>]

pointer_match_baseline(event, at) ==
    CASE event.event_type = "DOWN" -> pointer_down_baseline(at)
      [] event.event_type \in {"UP", "CANCEL", "LEAVE", "OUT"} ->
            pointer_release_baseline(at)
      [] OTHER -> [left_button_down |-> left_button_down, calls |-> <<>>]

----------------------------------------------------------------------------
(* send_pointer_event: the whole handler as a function of the event and of *)
(* what the collaborators answer.  The result names the outcome, the new   *)
(* fields, the calls made, the capture-target methods consulted and        *)
(* whether the handler panicked.                                           *)

Dropped(outcome, consulted) ==
    [outcome |-> outcome, left_button_down |-> left_button_down,
     in_proximity |-> in_proximity, cursor |-> cursor, calls |-> <<>>,
     steps |-> <<>>, consulted |-> consulted, panicked |-> FALSE]

\* mutant: the handler keeps asking the target the device was built with
Consult_first_target(method) == <<"t1", method>>

Consult(method) == <<capturable, method>>

\* mutant: is_primary is not looked at
pointer_guard_any_pointer(event, before_input_ok) ==
    IF ~before_input_ok
    THEN Dropped("activation_failed", <<Consult("before_input")>>)
    ELSE [outcome |-> "continue"]

\* mutant: the result of before_input() is discarded
pointer_guard_activation_ignored(event, before_input_ok) ==
    IF ~event.is_primary THEN Dropped("not_primary", <<>>)
    ELSE [outcome |-> "continue"]

\* is_primary check and before_input() of both builds
pointer_guard(event, before_input_ok) ==
    IF ~event.is_primary THEN Dropped("not_primary", <<>>)
    ELSE IF ~before_input_ok
    THEN Dropped("activation_failed", <<Consult("before_input")>>)
    ELSE [outcome |-> "continue"]

\* geometry().unwrap(): Err panics
geometry_unwrap(geometry) ==
    IF geometry.ok THEN [panicked |-> FALSE, value |-> geometry.value]
    ELSE [panicked |-> TRUE]

\* mutant: without screen bounds the event is mapped onto an empty screen
screen_coordsys_or_empty(screen_ok) ==
    [returned |-> FALSE,
     bounds |-> IF screen_ok THEN ScreenBounds ELSE <<0, 0, 0, 0>>]

\* the match on screen_coordsys(): Err returns from the handler
screen_coordsys_match(screen_ok) ==
    IF screen_ok THEN [returned |-> FALSE, bounds |-> ScreenBounds]
    ELSE [returned |-> TRUE]

send_pointer_event_macos(event, before_input_ok, geometry, screen_ok, posted) ==
    LET g == pointer_guard(event, before_input_ok)
        both == <<Consult("before_input"), Consult("geometry")>>
        u == geometry_unwrap(geometry)
        sc == screen_coordsys_match(screen_ok)
    IN  IF g.outcome # "continue" THEN g
        ELSE IF u.panicked
        THEN [Dropped("geometry_panic", both) EXCEPT !.panicked = TRUE]
        ELSE IF sc.returned THEN Dropped("screen_failed", both)
        ELSE LET m == pointer_match_macos(
                          event,
                          screen_x(event, u.value, sc.bounds[3]),
                          screen_y(event, u.value, sc.bounds[4]),
                          posted)
             IN  [outcome |-> "accepted",
                  left_button_down |-> m.left_button_down,
                  in_proximity |-> m.in_proximity, cursor |-> cursor,
                  calls |-> m.calls, steps |-> m.steps, consulted |-> both,
                  panicked |-> FALSE]

\* mutant: an event whose move fails is dropped
send_pointer_event_baseline_move_required(os, event, before_input_ok, geometry, move_ok) ==
    LET g == pointer_guard(event, before_input_ok)
        both == <<Consult("before_input"), Consult("geometry")>>
        u == geometry_unwrap(geometry)
    IN  IF g.outcome # "continue" THEN g
        ELSE IF u.panicked
        THEN [Dropped("geometry_panic", both) EXCEPT !.panicked = TRUE]
        ELSE IF os = "windows" /\ u.value.variant # "Relative"
        THEN Dropped("geometry_unsupported", both)
        ELSE LET x == screen_x(event, u.value, ScreenBounds[3])
                 y == screen_y(event, u.value, ScreenBounds[4])
                 m == pointer_match_baseline(event, <<x, y>>)
             IN  IF ~move_ok
                 THEN [Dropped("move_failed", both) EXCEPT
                          !.calls = <<move_to(x, y, move_ok)>>]
                 ELSE [outcome |-> "accepted",
                       left_button_down |-> m.left_button_down,
                       in_proximity |-> in_proximity, cursor |-> <<x, y>>,
                       calls |-> <<move_to(x, y, move_ok)>> \o m.calls,
                       steps |-> <<>>, consulted |-> both,
                       panicked |-> FALSE]

\* mutant: the pointer is moved after the match on event.event_type
send_pointer_event_baseline_late_move(os, event, before_input_ok, geometry, move_ok) ==
    LET g == pointer_guard(event, before_input_ok)
        both == <<Consult("before_input"), Consult("geometry")>>
        u == geometry_unwrap(geometry)
    IN  IF g.outcome # "continue" THEN g
        ELSE IF u.panicked
        THEN [Dropped("geometry_panic", both) EXCEPT !.panicked = TRUE]
        ELSE IF os = "windows" /\ u.value.variant # "Relative"
        THEN Dropped("geometry_unsupported", both)
        ELSE LET x == screen_x(event, u.value, ScreenBounds[3])
                 y == screen_y(event, u.value, ScreenBounds[4])
                 m == pointer_match_baseline(event, cursor)
             IN  [outcome |-> "accepted",
                  left_button_down |-> m.left_button_down,
                  in_proximity |-> in_proximity,
                  cursor |-> IF move_ok THEN <<x, y>> ELSE cursor,
                  calls |-> m.calls \o <<move_to(x, y, move_ok)>>,
                  steps |-> <<>>, consulted |-> both, panicked |-> FALSE]

send_pointer_event_baseline(os, event, before_input_ok, geometry, move_ok) ==
    LET g == pointer_guard(event, before_input_ok)
        both == <<Consult("before_input"), Consult("geometry")>>
        u == geometry_unwrap(geometry)
    IN  IF g.outcome # "continue" THEN g
        ELSE IF u.panicked
        THEN [Dropped("geometry_panic", both) EXCEPT !.panicked = TRUE]
        ELSE IF os = "windows" /\ u.value.variant # "Relative"
        THEN Dropped("geometry_unsupported", both)
        ELSE LET x == screen_x(event, u.value, ScreenBounds[3])
                 y == screen_y(event, u.value, ScreenBounds[4])
                 at == IF move_ok THEN <<x, y>> ELSE cursor
                 m == pointer_match_baseline(event, at)
             IN  [outcome |-> "accepted",
                  left_button_down |-> m.left_button_down,
                  in_proximity |-> in_proximity, cursor |-> at,
                  calls |-> <<move_to(x, y, move_ok)>> \o m.calls,
                  steps |-> <<>>, consulted |-> both, panicked |-> FALSE]

\* the build's send_pointer_event; env is what the collaborators answer
send_pointer_event(event, env) ==
    IF target_os = "macos"
    THEN send_pointer_event_macos(event, env.before_input_ok, env.geometry,
                                  env.screen_ok, env.posted)
    ELSE send_pointer_event_baseline(target_os, event, env.before_input_ok,
                                     env.geometry, env.move_ok)

----------------------------------------------------------------------------
(* send_wheel_event: the match on event.dy *)

\* mutant: the scroll up keeps the magnitude of dy
send_wheel_event_magnitude(dy) ==
    CASE dy \in 1..I32Max -> <<scroll("Up", dy)>>
      [] dy \in I32Min..(-1) -> <<scroll("Down", 1)>>
      [] dy = 0 -> <<>>

send_wheel_event(dy) ==
    CASE dy \in 1..I32Max -> <<scroll("Up", 1)>>
      [] dy \in I32Min..(-1) -> <<scroll("Down", 1)>>
      [] dy = 0 -> <<>>

----------------------------------------------------------------------------
(* send_keyboard_event *)

FunctionKeys ==
    {"F1", "F2", "F3", "F4", "F5", "F6", "F7", "F8", "F9", "F10", "F11",
     "F12", "F13", "F14", "F15", "F16", "F17", "F18", "F19", "F20", "F21",
     "F22", "F23", "F24"}

\* map_key: Option<KeyCode>
map_key(code) ==
    CASE code \in {"Escape", "Backspace", "Tab", "Space", "CapsLock", "Home",
                   "PageUp", "End", "PageDown", "Delete"} ->
            [some |-> TRUE, value |-> code]
      [] code = "Enter" -> [some |-> TRUE, value |-> "Return"]
      [] code \in FunctionKeys -> [some |-> TRUE, value |-> code]
      [] code = "ArrowUp" -> [some |-> TRUE, value |-> "UpArrow"]
      [] code = "ArrowLeft" -> [some |-> TRUE, value |-> "LeftArrow"]
      [] code = "ArrowRight" -> [some |-> TRUE, value |-> "RightArrow"]
      [] code = "ArrowDown" -> [some |-> TRUE, value |-> "DownArrow"]
      [] code \in {"ControlLeft", "ControlRight"} ->
            [some |-> TRUE, value |-> "Control"]
      [] code \in {"AltLeft", "AltRight"} -> [some |-> TRUE, value |-> "Alt"]
      [] code \in {"MetaLeft", "MetaRight"} ->
            [some |-> TRUE, value |-> "Meta"]
      [] code \in {"ShiftLeft", "ShiftRight"} ->
            [some |-> TRUE, value |-> "Shift"]
      [] OTHER -> [some |-> FALSE]

\* the flags vector: Control, Alt, Meta, Shift, in this order, when set
key_flags(event) ==
    (IF event.ctrl THEN <<"Control">> ELSE <<>>)
    \o (IF event.alt THEN <<"Alt">> ELSE <<>>)
    \o (IF event.meta THEN <<"Meta">> ELSE <<>>)
    \o (IF event.shift THEN <<"Shift">> ELSE <<>>)

\* mutant: the characters of key are toggled after a mapped code as well
keyboard_toggles_code_then_characters(event, state) ==
    LET key == map_key(event.code)
        flags == key_flags(event)
        characters ==
            [i \in 1..Len(event.key) |->
                key_toggle([by |-> "Character", value |-> event.key[i]],
                           state, flags)]
    IN  IF key.some
        THEN <<key_toggle([by |-> "Code", value |-> key.value], state,
                          flags)>> \o characters
        ELSE characters

\* mutant: of an unmapped code only the first character of key is toggled
keyboard_toggles_first_character(event, state) ==
    LET key == map_key(event.code)
        flags == key_flags(event)
    IN  IF key.some
        THEN <<key_toggle([by |-> "Code", value |-> key.value], state,
                          flags)>>
        ELSE [i \in 1..(IF Len(event.key) > 0 THEN 1 ELSE 0) |->
                 key_toggle([by |-> "Character", value |-> event.key[i]],
                            state, flags)]

\* the toggles of a DOWN (state) or UP (~state) event
keyboard_toggles(event, state) ==
    LET key == map_key(event.code)
        flags == key_flags(event)
    IN  IF key.some
        THEN <<key_toggle([by |-> "Code", value |-> key.value], state,
                          flags)>>
        ELSE [i \in 1..Len(event.key) |->
                 key_toggle([by |-> "Character", value |-> event.key[i]],
                            state, flags)]

\* mutant: REPEAT is replayed as another DOWN
send_keyboard_event_repeat_as_down(event) ==
    keyboard_toggles(event, event.event_type # "UP")

send_keyboard_event(event) ==
    IF event.event_type = "REPEAT" THEN <<>>
    ELSE keyboard_toggles(event, event.event_type = "DOWN")

\* device_type()
device_type == "AutoPilotDevice"

----------------------------------------------------------------------------
(* The state machine *)

Flags == [left_button_down |-> left_button_down, in_proximity |-> in_proximity]

\* AutoPilotDevice::new(capturable), on each build
Init ==
    /\ target_os \in TargetOS
    /\ capturable \in Targets
    /\ left_button_down = FALSE
    /\ in_proximity = FALSE
    /\ cursor = <<0, 0>>
    /\ panicked = FALSE
    /\ last = [op |-> "new", event |-> [none |-> TRUE],
               env |-> [none |-> TRUE], outcome |-> "done", calls |-> <<>>,
               consulted |-> <<>>, pre |-> Flags, steps |-> <<>>]
    /\ button_history = <<>>

\* What the collaborators can answer to one pointer event.  An answer the
\* handler never asks for is fixed (TRUE, the target's geometry), so that
\* one run of the handler is one environment.
Answers ==
    [before_input_ok |-> TRUE,
     geometry |-> [ok |-> TRUE, value |-> TargetGeometry(capturable)],
     screen_ok |-> TRUE, move_ok |-> TRUE, posted |-> TRUE]

PointerEnvs(event) ==
    IF ~event.is_primary THEN {Answers}
    ELSE {[Answers EXCEPT !.before_input_ok = FALSE]}
         \cup {[Answers EXCEPT !.geometry = g] :
                  g \in GeometryResults(target_os, capturable)}
         \cup (IF target_os = "macos"
               THEN {[Answers EXCEPT !.screen_ok = FALSE],
                     [Answers EXCEPT !.posted = FALSE]}
               ELSE {[Answers EXCEPT !.move_ok = FALSE]})

IsButtonEvent(event) == event.event_type \in {"DOWN"} \cup ReleaseTypes

ButtonPrimitives ==
    {"button_down", "button_up", "proximity_enter", "proximity_leave"}

EmitsButtonPrimitive(calls) ==
    \E i \in 1..Len(calls) : Primitive(calls[i]) \in ButtonPrimitives

\* send_pointer_event(&event) for an event of events.  With record, the
\* event is appended to button_history when it is an accepted DOWN or
\* release event or when it emitted a button or proximity primitive.
SendPointerEvent(events, record) ==
    /\ ~panicked
    /\ \E event \in events :
       \E env \in PointerEnvs(event) :
       \E r \in {send_pointer_event(event, env)} :
          LET recorded ==
                  /\ record
                  /\ \/ r.outcome = "accepted" /\ IsButtonEvent(event)
                     \/ EmitsButtonPrimitive(r.calls)
          IN  /\ recorded => Len(button_history) < MaxHistory
              /\ left_button_down' = r.left_button_down
              /\ in_proximity' = r.in_proximity
              /\ cursor' = r.cursor
              /\ panicked' = r.panicked
              /\ last' = [op |-> "send_pointer_event", event |-> event,
                          env |-> env, outcome |-> r.outcome, calls |-> r.calls,
                          consulted |-> r.consulted, pre |-> Flags,
                          steps |-> r.steps]
              /\ button_history' =
                    IF recorded
                    THEN Append(button_history,
                                [event_type |-> event.event_type,
                                 emitted |-> Primitives(r.calls)])
                    ELSE button_history
    /\ UNCHANGED <<target_os, capturable>>

\* send_wheel_event(&event) for a dy of deltas
SendWheelEvent(deltas) ==
    /\ ~panicked
    /\ \E dy \in deltas :
          last' = [op |-> "send_wheel_event", event |-> [dy |-> dy],
                   env |-> [none |-> TRUE],
                   outcome |-> "done", calls |-> send_wheel_event(dy),
                   consulted |-> <<>>, pre |-> Flags, steps |-> <<>>]
    /\ UNCHANGED <<target_os, capturable, left_button_down, in_proximity,
                   cursor, panicked, button_history>>

\* send_keyboard_event(&event) for an event of events
SendKeyboardEvent(events) ==
    /\ ~panicked
    /\ \E event \in events :
          last' = [op |-> "send_keyboard_event", event |-> event,
                   env |-> [none |-> TRUE],
                   outcome |-> "done", calls |-> send_keyboard_event(event),
                   consulted |-> <<>>, pre |-> Flags, steps |-> <<>>]
    /\ UNCHANGED <<target_os, capturable, left_button_down, in_proximity,
                   cursor, panicked, button_history>>

\* mutant: replacing the capture target resets the pointer state
SetCapturable_resets_flags ==
    /\ ~panicked
    /\ \E t \in Targets :
          /\ capturable' = t
          /\ last' = [op |-> "set_capturable", event |-> [capturable |-> t],
                      env |-> [none |-> TRUE],
                      outcome |-> "done", calls |-> <<>>, consulted |-> <<>>,
                      pre |-> Flags, steps |-> <<>>]
    /\ left_button_down' = FALSE
    /\ in_proximity' = FALSE
    /\ UNCHANGED <<target_os, cursor, panicked, button_history>>

\* set_capturable(capturable)
SetCapturable ==
    /\ ~panicked
    /\ \E t \in Targets :
          /\ capturable' = t
          /\ last' = [op |-> "set_capturable", event |-> [capturable |-> t],
                      env |-> [none |-> TRUE],
                      outcome |-> "done", calls |-> <<>>, consulted |-> <<>>,
                      pre |-> Flags, steps |-> <<>>]
    /\ UNCHANGED <<target_os, left_button_down, in_proximity, cursor,
                   panicked, button_history>>

\* device_type()
DeviceType ==
    /\ ~panicked
    /\ last' = [op |-> "device_type", event |-> [none |-> TRUE],
                env |-> [none |-> TRUE],
                outcome |-> device_type, calls |-> <<>>, consulted |-> <<>>,
                pre |-> Flags, steps |-> <<>>]
    /\ UNCHANGED <<target_os, capturable, left_button_down, in_proximity,
                   cursor, panicked, button_history>>

\* The device under every sampled input; button_history is not kept.
Next ==
    \/ SendPointerEvent(PointerEvents, FALSE)
    \/ SendWheelEvent(WheelDeltas)
    \/ SendKeyboardEvent(KeyboardEvents)
    \/ SetCapturable
    \/ DeviceType

Spec == Init /\ [][Next]_vars

\* The device with button_history kept, for runs of at most MaxHistory
\* recorded events on one capture target: pointer events of every type,
\* primary or not, at one position and pressure, every answer of the
\* collaborators, and a wheel and a keyboard event in between.
HistoryPointerEvents ==
    {e \in PointerEvents : e.x = 0 /\ e.y = Unit /\ e.pressure = Unit}

HistoryKeyboardEvents ==
    {e \in KeyboardEvents :
        e.code = "KeyA" /\ e.event_type = "DOWN" /\ ~e.ctrl /\ ~e.alt}

InitHistory == Init /\ capturable = "t1"

NextHistory ==
    \/ SendPointerEvent(HistoryPointerEvents, TRUE)
    \/ SendWheelEvent({7})
    \/ SendKeyboardEvent(HistoryKeyboardEvents)
    \/ DeviceType

SpecHistory == InitHistory /\ [][NextHistory]_vars

\* The device built with the capture target t1, under every sampled input:
\* the target t2 is held only after a set_capturable(t2).
InitCapture == Init /\ capturable = "t1"

SpecCapture == InitCapture /\ [][Next]_vars

\* The coordinate mapping alone: two normalized positions x1 < x2, on and
\* off the target, a geometry and a screen width are drawn, and the x
\* coordinate of each position is computed as send_pointer_event does.  The
\* geometries include a target of no width and a target so far from the
\* origin that the sum exceeds MantissaBits bits, as the sum of a screen
\* position and a difference below 2^-53 does on an f64.
MappingXs == {-1, 0, 1, Unit, Unit + 1}

MappingGeometries ==
    { [variant |-> "Relative", x |-> gx, y |-> 0, width |-> gw,
       height |-> Unit] :
        gx \in {0, 1, 2^MantissaBits}, gw \in {0, 1, Unit} }

MappingWidths == {1280, ScreenBounds[3]}

InitMapping ==
    /\ target_os \in TargetOS
    /\ capturable = "t1"
    /\ left_button_down = FALSE
    /\ in_proximity = FALSE
    /\ cursor = <<0, 0>>
    /\ panicked = FALSE
    /\ button_history = <<>>
    /\ \E x1, x2 \in MappingXs :
       \E geometry \in MappingGeometries :
       \E width \in MappingWidths :
          /\ x1 < x2
          /\ last = [op |-> "new", event |-> [x1 |-> x1, x2 |-> x2],
                     env |-> [geometry |-> geometry, width |-> width],
                     outcome |-> "done", calls |-> <<>>, consulted |-> <<>>,
                     pre |-> Flags, steps |-> <<>>]

\* let screen_x = (event.x * width_rel + x_rel) * width, for both positions
MapCoordinates ==
    /\ last.op = "new"
    /\ last' = [last EXCEPT
                  !.op = "screen_x",
                  !.outcome =
                      [x1 |-> screen_x([x |-> last.event.x1],
                                       last.env.geometry, last.env.width),
                       x2 |-> screen_x([x |-> last.event.x2],
                                       last.env.geometry, last.env.width)]]
    /\ UNCHANGED <<target_os, capturable, left_button_down, in_proximity,
                   cursor, panicked, button_history>>

NextMapping == MapCoordinates

SpecMapping == InitMapping /\ [][NextMapping]_vars

----------------------------------------------------------------------------
(* Properties of one operation, checked under Spec.  last holds the most   *)
(* recent operation: its input, what the collaborators answered, the calls *)
(* it made and the flags before it.                                        *)

LastPointer == last.op = "send_pointer_event"

NothingEmittedNothingChanged ==
    /\ last.calls = <<>>
    /\ left_button_down = last.pre.left_button_down
    /\ in_proximity = last.pre.in_proximity

\* C4: a pointer event with is_primary = false, of any event_type and in
\* any device state, emits no platform primitive and leaves
\* left_button_down and in_proximity unchanged.
C4_NonPrimaryIgnored ==
    (LastPointer /\ ~last.event.is_primary) =>
        NothingEmittedNothingChanged /\ ~panicked

\* a non-primary UP was handled while the button was down
C4_Witness ==
    /\ LastPointer
    /\ ~last.event.is_primary
    /\ last.event.event_type = "UP"
    /\ last.pre.left_button_down

\* C5: when before_input() fails for a primary pointer event, no platform
\* primitive is emitted and left_button_down and in_proximity keep their
\* values, whatever the event_type.
C5_ActivationFailureDrops ==
    (LastPointer /\ last.event.is_primary /\ ~last.env.before_input_ok) =>
        NothingEmittedNothingChanged /\ ~panicked

\* a primary UP whose activation failed left the button held
C5_Witness ==
    /\ LastPointer
    /\ last.event.is_primary
    /\ ~last.env.before_input_ok
    /\ last.event.event_type = "UP"
    /\ left_button_down

\* C6: when geometry() fails for a primary pointer event whose activation
\* succeeded, send_pointer_event returns normally: it does not panic, no
\* platform primitive is emitted and no flag changes.
C6_GeometryFailureDrops ==
    (LastPointer /\ last.event.is_primary /\ last.env.before_input_ok
        /\ ~last.env.geometry.ok) =>
        NothingEmittedNothingChanged /\ ~panicked

\* C8: on macos, when screen_coordsys() fails for a primary pointer event
\* whose activation and geometry lookup succeeded, no mouse or proximity
\* primitive is emitted and both flags are unchanged.
C8_ScreenFailureDrops ==
    (LastPointer /\ target_os = "macos" /\ last.event.is_primary
        /\ last.env.before_input_ok /\ last.env.geometry.ok
        /\ ~last.env.screen_ok) =>
        NothingEmittedNothingChanged /\ ~panicked

\* a primary UP was dropped for want of screen bounds, the button held
C8_Witness ==
    /\ LastPointer
    /\ target_os = "macos"
    /\ last.event.is_primary
    /\ last.env.before_input_ok
    /\ last.env.geometry.ok
    /\ ~last.env.screen_ok
    /\ last.event.event_type = "UP"
    /\ left_button_down
    /\ in_proximity

\* C9: send_wheel_event makes exactly one scroll call, up by one unit when
\* dy > 0 and down by one unit when dy < 0, and no call when dy = 0, for
\* every dy of the 32-bit signed range.
C9_WheelDirectionOnly ==
    last.op = "send_wheel_event" =>
        /\ last.event.dy > 0 => last.calls = <<scroll("Up", 1)>>
        /\ last.event.dy < 0 => last.calls = <<scroll("Down", 1)>>
        /\ last.event.dy = 0 => last.calls = <<>>

\* the wheel event with dy = i32::MIN scrolled down by one unit
C9_Witness ==
    /\ last.op = "send_wheel_event"
    /\ last.event.dy = I32Min
    /\ Len(last.calls) = 1
    /\ last.calls[1].direction = "Down"

\* C10: a keyboard event with event_type REPEAT makes no platform call,
\* whatever its code, key and modifier flags.
C10_RepeatIgnored ==
    (last.op = "send_keyboard_event" /\ last.event.event_type = "REPEAT") =>
        last.calls = <<>>

\* a REPEAT of an unmapped code with a two-character key and every modifier
C10_Witness ==
    /\ last.op = "send_keyboard_event"
    /\ last.event.event_type = "REPEAT"
    /\ ~map_key(last.event.code).some
    /\ Len(last.event.key) = 2
    /\ last.event.ctrl /\ last.event.alt /\ last.event.meta
    /\ last.event.shift

----------------------------------------------------------------------------
(* Properties of sequences of pointer events, checked under SpecHistory.   *)
(* button_history holds, in order, every pointer event accepted as a DOWN  *)
(* or a release and every event that emitted a button or proximity         *)
(* primitive, each with the primitives it emitted.                         *)

RECURSIVE EmittedUpTo(_)
EmittedUpTo(n) ==
    IF n = 0 THEN <<>>
    ELSE EmittedUpTo(n - 1) \o button_history[n].emitted

\* every primitive the recorded events emitted, in order
Emitted == EmittedUpTo(Len(button_history))

IsButton(p) == p \in {"button_down", "button_up"}

IsProximity(p) == p \in {"proximity_enter", "proximity_leave"}

Count(seq, kind) == Cardinality({n \in 1..Len(seq) : seq[n] = kind})

TypeAt(i) == button_history[i].event_type

\* i starts a run of DOWN events: no earlier DOWN reaches it without an
\* event of stops in between
RunStart(i, stops) ==
    /\ TypeAt(i) = "DOWN"
    /\ \A k \in 1..(i - 1) :
          TypeAt(k) = "DOWN" =>
              \E m \in (k + 1)..(i - 1) : TypeAt(m) \in stops

\* j is a later DOWN of the run that starts at i
LaterInRun(i, j, stops) ==
    /\ i < j
    /\ TypeAt(j) = "DOWN"
    /\ \A m \in (i + 1)..(j - 1) : TypeAt(m) \notin stops

OneButtonDownPerRun(stops) ==
    \A i \in 1..Len(button_history) :
        RunStart(i, stops) =>
            /\ Count(button_history[i].emitted, "button_down") = 1
            /\ \A j \in 1..Len(button_history) :
                  LaterInRun(i, j, stops) =>
                      Count(button_history[j].emitted, "button_down") = 0

\* C1, as stated: in a sequence of accepted primary DOWN events with no
\* UP in between, the first DOWN emits exactly one button-down and every
\* later DOWN emits none.
C1_OneButtonDownUntilUp == OneButtonDownPerRun({"UP"})

\* C1, amended: in a sequence of accepted primary DOWN events with no UP,
\* CANCEL, LEAVE or OUT in between, the first DOWN emits exactly one
\* button-down and every later DOWN emits none.
C1_OneButtonDownUntilRelease == OneButtonDownPerRun(ReleaseTypes)

\* three accepted DOWN events in a row, the button held
C1_Witness ==
    /\ Len(button_history) >= 3
    /\ \A i \in 1..3 : TypeAt(i) = "DOWN"
    /\ Count(Emitted, "button_down") = 1
    /\ left_button_down

FirstDownThenUp ==
    /\ Len(button_history) >= 2
    /\ TypeAt(1) = "DOWN"
    /\ TypeAt(2) = "UP"

DownThenUpEmitsOneEach ==
    FirstDownThenUp =>
        SelectSeq(button_history[1].emitted \o button_history[2].emitted,
                  IsButton) = <<"button_down", "button_up">>

SecondUp ==
    /\ FirstDownThenUp
    /\ Len(button_history) >= 3
    /\ TypeAt(3) = "UP"

\* C2, as stated: from a fresh device, an accepted DOWN then UP emit one
\* button-down, then one button-up; a second UP emits no platform
\* primitive of any kind, on every build.
C2_SecondUpEmitsNothing ==
    /\ DownThenUpEmitsOneEach
    /\ SecondUp => button_history[3].emitted = <<>>

\* C2, amended: from a fresh device, an accepted DOWN then UP emit one
\* button-down, then one button-up; a second UP emits no button and no
\* proximity primitive: nothing at all on macos, and on the other builds
\* only the absolute-position move made for every accepted event.
C2_SecondUpEmitsNoButton ==
    /\ DownThenUpEmitsOneEach
    /\ SecondUp =>
          button_history[3].emitted =
              IF target_os = "macos" THEN <<>> ELSE <<"move_to">>

\* DOWN, UP, UP on a baseline build: the second UP moved the pointer only
C2_Witness ==
    /\ SecondUp
    /\ target_os = "linux"
    /\ button_history[3].emitted = <<"move_to">>
    /\ ~left_button_down

Positions(kind) == {i \in 1..Len(Emitted) : Emitted[i] = kind}

Smallest(S) == CHOOSE i \in S : \A j \in S : i <= j

Largest(S) == CHOOSE i \in S : \A j \in S : j <= i

\* the last button-up before position d, or 0
UpBefore(d) == Largest({0} \cup {j \in Positions("button_up") : j < d})

\* the first button-up after position d, or past the end
UpAfter(d) ==
    Smallest({Len(Emitted) + 1} \cup {j \in Positions("button_up") : j > d})

\* the last button-down before position u, or 0
DownBefore(u) == Largest({0} \cup {j \in Positions("button_down") : j < u})

\* the first button-down after position u, or past the end
DownAfter(u) ==
    Smallest({Len(Emitted) + 1}
             \cup {j \in Positions("button_down") : j > u})

\* C3: on macos, in every DOWN-to-UP cycle, proximity-enter is emitted at
\* most once and before the first button-down of the cycle, and
\* proximity-leave is emitted exactly once and after the button-up that
\* ends the cycle.
C3_ProximityBracketsCycle ==
    target_os = "macos" =>
        /\ \A d \in Positions("button_down") :
              LET enters == {e \in Positions("proximity_enter") :
                                UpBefore(d) < e /\ e < UpAfter(d)}
              IN  /\ Cardinality(enters) <= 1
                  /\ \A e \in enters : e < d
        /\ \A u \in Positions("button_up") :
              LET leaves == {l \in Positions("proximity_leave") :
                                DownBefore(u) < l /\ l < DownAfter(u)}
              IN  /\ Cardinality(leaves) = 1
                  /\ \A l \in leaves : u < l

\* a cycle on macos with a second DOWN in it, ended by a release
C3_Witness ==
    /\ target_os = "macos"
    /\ Len(button_history) >= 3
    /\ TypeAt(1) = "DOWN"
    /\ TypeAt(2) = "DOWN"
    /\ TypeAt(3) \in ReleaseTypes
    /\ Emitted = <<"proximity_enter", "button_down", "button_up",
                   "proximity_leave">>

\* C7: after any sequence of pointer events, left_button_down is true
\* exactly when the most recent button primitive emitted was a
\* button-down, button-downs and button-ups alternate starting with a
\* button-down, and on macos in_proximity is true exactly when the most
\* recent proximity primitive emitted was a proximity-enter.
C7_FlagsAgreeWithEmitted ==
    LET buttons == SelectSeq(Emitted, IsButton)
        proximity == SelectSeq(Emitted, IsProximity)
    IN  /\ \A i \in 1..Len(buttons) :
              buttons[i] =
                  IF i % 2 = 1 THEN "button_down" ELSE "button_up"
        /\ left_button_down <=>
              (buttons # <<>> /\ buttons[Len(buttons)] = "button_down")
        /\ target_os = "macos" =>
              (in_proximity <=>
                  (proximity # <<>>
                   /\ proximity[Len(proximity)] = "proximity_enter"))
        /\ target_os # "macos" => ~in_proximity /\ proximity = <<>>

\* after DOWN, a release and a redundant release, a primary DOWN whose
\* activation failed left the button up
C7_Witness ==
    /\ Len(button_history) >= 3
    /\ TypeAt(1) = "DOWN"
    /\ TypeAt(2) \in ReleaseTypes
    /\ TypeAt(3) \in ReleaseTypes
    /\ LastPointer
    /\ last.event.is_primary
    /\ last.event.event_type = "DOWN"
    /\ ~last.env.before_input_ok
    /\ ~left_button_down

----------------------------------------------------------------------------
(* Properties of one keyboard event, checked under Spec *)

LastKeyToggle ==
    /\ last.op = "send_keyboard_event"
    /\ last.event.event_type \in {"DOWN", "UP"}

\* the sampled codes the fixed table has an entry for, each with the key
\* code the table gives (lines 254 and 275)
TableSamples ==
    { <<"F13", "F13">>, <<"ControlLeft", "Control">>,
      <<"ControlRight", "Control">> }

\* the left and right code of each modifier (lines 275 to 278)
ModifierCodes ==
    { <<"ControlLeft", "ControlRight">>, <<"AltLeft", "AltRight">>,
      <<"MetaLeft", "MetaRight">>, <<"ShiftLeft", "ShiftRight">> }

\* the sampled codes the fixed table has no entry for
FallbackSamples == {"KeyA", "Unknown99", "Unidentified"}

\* C11: a DOWN or UP keyboard event whose code has a table entry makes
\* exactly one key-toggle call, for the mapped key code, with state true for
\* DOWN and false for UP, and no character-level toggle whatever key holds;
\* the left and the right code of a modifier map to one and the same key
\* code.
C11_MappedCodeOneToggle ==
    /\ \A m \in ModifierCodes :
          map_key(m[1]).some /\ map_key(m[2]) = map_key(m[1])
    /\ \A t \in TableSamples :
          (LastKeyToggle /\ last.event.code = t[1]) =>
              /\ Len(last.calls) = 1
              /\ last.calls[1].kind = "key_toggle"
              /\ last.calls[1].key = [by |-> "Code", value |-> t[2]]
              /\ last.calls[1].down = (last.event.event_type = "DOWN")

\* an UP of ControlRight, whose key text has seven characters, made one call
C11_Witness ==
    /\ LastKeyToggle
    /\ last.event.event_type = "UP"
    /\ last.event.code = "ControlRight"
    /\ Len(last.event.key) = 7
    /\ Len(last.calls) = 1
    /\ last.calls[1].key.value = "Control"
    /\ ~last.calls[1].down

HasFlag(call, flag) == \E j \in 1..Len(call.flags) : call.flags[j] = flag

\* the call carries the modifier flags of the event, each once
CarriesFlagsOf(call, event) ==
    /\ HasFlag(call, "Control") <=> event.ctrl
    /\ HasFlag(call, "Alt") <=> event.alt
    /\ HasFlag(call, "Meta") <=> event.meta
    /\ HasFlag(call, "Shift") <=> event.shift
    /\ \A j, k \in 1..Len(call.flags) :
          call.flags[j] = call.flags[k] => j = k

\* C12: a DOWN or UP keyboard event whose code has no table entry makes one
\* character-level toggle per character of key, in the order of key, each
\* with the modifier flags and the down/up state of the event: one call for
\* a one-character key, none for an empty key, and never a code-level
\* toggle.
C12_UnmappedCodePerCharacter ==
    (LastKeyToggle /\ last.event.code \in FallbackSamples) =>
        /\ Len(last.calls) = Len(last.event.key)
        /\ \A i \in 1..Len(last.calls) :
              /\ last.calls[i].kind = "key_toggle"
              /\ last.calls[i].key =
                    [by |-> "Character", value |-> last.event.key[i]]
              /\ last.calls[i].down = (last.event.event_type = "DOWN")
              /\ CarriesFlagsOf(last.calls[i], last.event)

\* a DOWN of Unknown99 with alt and shift, whose key is "e" followed by a
\* combining accent, toggled the two characters in this order
C12_Witness ==
    /\ LastKeyToggle
    /\ last.event.event_type = "DOWN"
    /\ last.event.code = "Unknown99"
    /\ last.event.alt /\ last.event.shift /\ ~last.event.ctrl
    /\ Len(last.calls) = 2
    /\ last.calls[1].key = [by |-> "Character", value |-> "e"]
    /\ last.calls[2].key = [by |-> "Character", value |-> "\\u0301"]
    /\ last.calls[2].flags = <<"Alt", "Shift">>
    /\ last.calls[2].down

----------------------------------------------------------------------------
(* Properties of the capture target, checked under SpecCapture *)

\* the pointer event of last passed the is_primary check, the activation
\* and the geometry lookup, and on macos the screen lookup
Accepted ==
    /\ LastPointer
    /\ last.event.is_primary
    /\ last.env.before_input_ok
    /\ last.env.geometry.ok
    /\ last.env.geometry.value.variant = "Relative"
    /\ target_os = "macos" => last.env.screen_ok

\* C13: set_capturable(t) makes t the target held, no other operation
\* changes the target held, and every pointer event asks before_input and
\* geometry of the target held when it is sent and of no other: so the
\* first pointer event after set_capturable(t) and every later one consult
\* t, and the target replaced is not consulted again.
C13_NewTargetConsulted ==
    [][/\ last'.op = "set_capturable" => capturable' = last'.event.capturable
       /\ last'.op # "set_capturable" => capturable' = capturable
       /\ last'.op = "send_pointer_event" =>
             /\ \A i \in 1..Len(last'.consulted) :
                   last'.consulted[i][1] = capturable
             /\ (last'.event.is_primary /\ last'.env.before_input_ok) =>
                   /\ Len(last'.consulted) = 2
                   /\ last'.consulted[1][2] = "before_input"
                   /\ last'.consulted[2][2] = "geometry"]_vars

\* after t1 was replaced by t2, an accepted MOVE asked t2 for the activation
\* and for the geometry, and was mapped with the geometry of t2
C13_Witness ==
    /\ Accepted
    /\ capturable = "t2"
    /\ last.consulted = <<<<"t2", "before_input">>, <<"t2", "geometry">>>>
    /\ last.env.geometry.value = TargetGeometry("t2")
    /\ last.event.event_type = "MOVE"
    /\ last.event.x = Unit
    /\ last.calls[1].x = (Unit * 1 + 1 * Unit) * ScreenBounds[3]

----------------------------------------------------------------------------
(* Properties of the coordinate mapping, checked under SpecMapping *)

Mapped == last.op = "screen_x"

\* no operation of the mapping of x rounds: each exact result is
\* representable
MapsExactly(x) ==
    LET product == x * last.env.geometry.width
        sum == product + last.env.geometry.x * Unit
    IN  /\ f64(product) = product
        /\ f64(sum) = sum
        /\ f64(sum * last.env.width) = sum * last.env.width

\* C14: for every capture geometry and screen size and any two normalized
\* positions x1 < x2, the absolute x-coordinate computed for x2 is strictly
\* greater than the one computed for x1.
C14_StrictlyIncreasing ==
    Mapped => last.outcome.x1 < last.outcome.x2

\* C14, amended: for every geometry of width_rel >= 0, every screen of
\* positive width and x1 < x2, the x-coordinate computed for x2 is never
\* smaller than the one computed for x1, and it is strictly greater when
\* width_rel > 0 and no operation rounds for either position, on the screen
\* or off it (the result is not clamped).
C14_NeverDecreasing ==
    Mapped =>
        /\ last.outcome.x1 <= last.outcome.x2
        /\ (/\ last.env.geometry.width > 0
            /\ MapsExactly(last.event.x1)
            /\ MapsExactly(last.event.x2)) =>
               last.outcome.x1 < last.outcome.x2

\* two positions right of a target that fills the screen were mapped,
\* without rounding, to two different points right of the screen
C14_Witness ==
    /\ Mapped
    /\ last.event.x1 = Unit
    /\ last.event.x2 = Unit + 1
    /\ last.env.geometry.x = 0
    /\ last.env.geometry.width = Unit
    /\ MapsExactly(last.event.x1)
    /\ MapsExactly(last.event.x2)
    /\ last.outcome.x1 = last.env.width * Unit * Unit
    /\ last.outcome.x2 > last.outcome.x1

----------------------------------------------------------------------------
(* Properties of one accepted pointer event, checked under Spec *)

\* C15: on macos an accepted primary MOVE, OVER or ENTER emits exactly one
\* primitive and changes no flag: a plain move with pressure 0 when
\* left_button_down is false, a drag with the pressure of the event when it
\* is true; it emits no button-down, button-up or proximity primitive.
C15_MoveOrDrag ==
    (Accepted /\ target_os = "macos" /\ last.event.event_type \in MoveTypes)
        =>
        /\ Len(last.calls) = 1
        /\ left_button_down = last.pre.left_button_down
        /\ in_proximity = last.pre.in_proximity
        /\ ~last.pre.left_button_down =>
              /\ Primitive(last.calls[1]) = "move"
              /\ last.calls[1].pressure = 0
        /\ last.pre.left_button_down =>
              /\ Primitive(last.calls[1]) = "drag"
              /\ last.calls[1].pressure = last.event.pressure

\* an OVER of full pressure was replayed as a plain move of pressure 0 with
\* the button up
C15_Witness ==
    /\ Accepted
    /\ target_os = "macos"
    /\ last.event.event_type = "OVER"
    /\ last.event.pressure = Unit
    /\ ~last.pre.left_button_down
    /\ Primitives(last.calls) = <<"move">>
    /\ last.calls[1].pressure = 0

\* C16: an accepted primary UP, CANCEL, LEAVE or OUT, whichever of the four
\* it is: with left_button_down true it sets left_button_down to false and
\* emits exactly one button-up primitive, of pressure 0 on macos whatever
\* the pressure of the event; with left_button_down false it emits no
\* button-up and changes no flag.
C16_ReleaseEvents ==
    (Accepted /\ last.event.event_type \in ReleaseTypes) =>
        /\ last.pre.left_button_down =>
              /\ ~left_button_down
              /\ Count(Primitives(last.calls), "button_up") = 1
              /\ \A i \in 1..Len(last.calls) :
                    (target_os = "macos"
                        /\ Primitive(last.calls[i]) = "button_up") =>
                        last.calls[i].pressure = 0
        /\ ~last.pre.left_button_down =>
              /\ Count(Primitives(last.calls), "button_up") = 0
              /\ left_button_down = last.pre.left_button_down
              /\ in_proximity = last.pre.in_proximity

\* an OUT of full pressure released the button held on macos with a
\* button-up of pressure 0
C16_Witness ==
    /\ Accepted
    /\ target_os = "macos"
    /\ last.event.event_type = "OUT"
    /\ last.event.pressure = Unit
    /\ last.pre.left_button_down
    /\ ~left_button_down
    /\ Primitives(last.calls) = <<"button_up", "proximity_leave">>
    /\ last.calls[1].pressure = 0

----------------------------------------------------------------------------
(* Properties of the two flags on macos, between the operations and inside *)
(* them, checked under Spec                                                *)

IdleInProximity(step) == ~step.left_button_down /\ step.in_proximity

\* a primitive of kind was emitted at the step i of last or before it
EmittedBy(i, kind) == \E j \in 1..i : last.steps[j].emitting = kind

\* left_button_down without in_proximity is at no step of the operation,
\* and the flags are equal once it has returned
ButtonDownOnlyInProximity ==
    /\ left_button_down = in_proximity
    /\ \A i \in 1..Len(last.steps) :
          last.steps[i].left_button_down => last.steps[i].in_proximity

\* C17: on macos left_button_down = true with in_proximity = false is never
\* reached, not even inside an operation; between operations the two flags
\* are equal; and left_button_down = false with in_proximity = true occurs
\* only inside the release step, before the proximity-leave is emitted.
C17_IdleInProximityOnlyInRelease ==
    target_os = "macos" =>
        /\ ButtonDownOnlyInProximity
        /\ \A i \in 1..Len(last.steps) :
              IdleInProximity(last.steps[i]) =>
                  /\ last.event.event_type \in ReleaseTypes
                  /\ ~EmittedBy(i, "proximity_leave")

\* C17, amended: as C17, but left_button_down = false with in_proximity =
\* true occurs inside the DOWN step as well, before the button-down is
\* emitted: in_proximity is set and the proximity-enter emitted before
\* left_button_down is set.
C17_IdleInProximityOnlyTransient ==
    target_os = "macos" =>
        /\ ButtonDownOnlyInProximity
        /\ \A i \in 1..Len(last.steps) :
              IdleInProximity(last.steps[i]) =>
                  \/ /\ last.event.event_type \in ReleaseTypes
                     /\ ~EmittedBy(i, "proximity_leave")
                  \/ /\ last.event.event_type = "DOWN"
                     /\ ~EmittedBy(i, "button_down")

\* a DOWN with the button up emitted the proximity-enter with in_proximity
\* set and left_button_down not yet set, and returned with both flags set
C17_Witness ==
    /\ Accepted
    /\ target_os = "macos"
    /\ last.event.event_type = "DOWN"
    /\ ~last.pre.left_button_down
    /\ Len(last.steps) = 4
    /\ last.steps[2] = Step(FALSE, TRUE, "proximity_enter")
    /\ last.steps[4] = Step(TRUE, TRUE, "button_down")
    /\ left_button_down /\ in_proximity

----------------------------------------------------------------------------
(* Properties of the operations other than send_pointer_event, checked     *)
(* under SpecCapture                                                       *)

OtherOperations ==
    {"send_wheel_event", "send_keyboard_event", "set_capturable",
     "device_type"}

\* C18: send_wheel_event, send_keyboard_event, set_capturable and
\* device_type leave left_button_down and in_proximity as they are, in every
\* state, and do not call before_input (nor geometry) of the capture target;
\* a button held when the capture target is replaced is released by an
\* accepted release event that follows, which consults the new target.
C18_OnlyPointerEventsChangeFlags ==
    [][/\ last'.op \in OtherOperations =>
             /\ left_button_down' = left_button_down
             /\ in_proximity' = in_proximity
             /\ last'.consulted = <<>>
       /\ (/\ last.op = "set_capturable"
           /\ left_button_down
           /\ Accepted'
           /\ last'.event.event_type \in ReleaseTypes) =>
             /\ ~left_button_down'
             /\ Count(Primitives(last'.calls), "button_up") = 1
             /\ last'.consulted[1] = <<last.event.capturable, "before_input">>
      ]_vars

\* on linux the button is held and the pointer is where a position on t1
\* was mapped to, and set_capturable(t2) has just returned
C18_Witness ==
    /\ target_os = "linux"
    /\ last.op = "set_capturable"
    /\ capturable = "t2"
    /\ last.pre.left_button_down
    /\ left_button_down
    /\ cursor = <<screen_x([x |-> 0], TargetGeometry("t1"), ScreenBounds[3]),
                  screen_y([y |-> Unit], TargetGeometry("t1"),
                           ScreenBounds[4])>>

----------------------------------------------------------------------------
(* Properties of one accepted pointer event on the baseline builds,        *)
(* checked under Spec                                                      *)

Baseline == target_os # "macos"

\* C19: on the baseline builds every accepted primary pointer event, of any
\* event_type and in either button state, attempts exactly one
\* absolute-position move, to the position the event maps to, and makes it
\* before any button toggle of the event; so does a DOWN with the button
\* down and a release event with the button up.
C19_MoveBeforeToggle ==
    (Accepted /\ Baseline) =>
        /\ Count(Primitives(last.calls), "move_to") = 1
        /\ last.calls[1].kind = "move_to"
        /\ last.calls[1].x = screen_x(last.event, last.env.geometry.value,
                                      ScreenBounds[3])
        /\ last.calls[1].y = screen_y(last.event, last.env.geometry.value,
                                      ScreenBounds[4])
        /\ \A i \in 2..Len(last.calls) : last.calls[i].kind = "toggle"
        /\ (last.event.event_type = "DOWN" /\ ~last.pre.left_button_down) =>
              Primitives(last.calls) = <<"move_to", "button_down">>
        /\ (last.event.event_type \in ReleaseTypes
               /\ last.pre.left_button_down) =>
              Primitives(last.calls) = <<"move_to", "button_up">>

\* on windows a DOWN with the button down attempted the move and nothing
\* else
C19_Witness ==
    /\ Accepted
    /\ target_os = "windows"
    /\ last.event.event_type = "DOWN"
    /\ last.pre.left_button_down
    /\ Primitives(last.calls) = <<"move_to">>
    /\ left_button_down

\* C20: on the baseline builds an accepted primary pointer event whose
\* move_to fails is not dropped: the pointer stays where it was, a DOWN with
\* the button up sets left_button_down and a release event with the button
\* down clears it, and the button toggle is emitted at the position the
\* pointer had before the event.
C20_FailedMoveKeepsEvent ==
    [][(Accepted' /\ Baseline /\ ~last'.env.move_ok) =>
          /\ cursor' = cursor
          /\ last'.calls[1].kind = "move_to"
          /\ ~last'.calls[1].ok
          /\ (last'.event.event_type = "DOWN" /\ ~left_button_down) =>
                /\ left_button_down'
                /\ Len(last'.calls) = 2
                /\ last'.calls[2] = toggle(TRUE, cursor)
          /\ (last'.event.event_type \in ReleaseTypes /\ left_button_down)
                =>
                /\ ~left_button_down'
                /\ Len(last'.calls) = 2
                /\ last'.calls[2] = toggle(FALSE, cursor)
      ]_vars

\* on linux a DOWN whose move failed pressed the button where an earlier
\* event had left the pointer, not at the position of the DOWN
C20_Witness ==
    /\ Accepted
    /\ target_os = "linux"
    /\ ~last.env.move_ok
    /\ last.event.event_type = "DOWN"
    /\ ~last.pre.left_button_down
    /\ left_button_down
    /\ Len(last.calls) = 2
    /\ last.calls[2] = toggle(TRUE, cursor)
    /\ cursor # <<0, 0>>
    /\ cursor # <<last.calls[1].x, last.calls[1].y>>

====
